---- MODULE Spec2Model ----
(***************************************************************************)
(* Model of the chat server's mock WebSocket broker (server index.ts):     *)
(* the clients/rooms registry, broadcastToRoom, the connection, message    *)
(* and close handlers installed by ensureMockServer, and POST /chat.       *)
(*                                                                         *)
(* JavaScript values are records [k, v]: k is the JS type and v the text   *)
(* of the value.  Frames sent to a socket are kept as the object handed to *)
(* JSON.stringify; JSON.stringify drops a field whose value is undefined,  *)
(* which a reader of the frame sees as undefined again, so the object and  *)
(* its text determine each other on the values used here.                  *)
(***************************************************************************)
EXTENDS Naturals, Integers, Sequences, FiniteSets, TLC

\* ------------------------------------------------------------------ bounds
\* Number of transport connections the mock server accepts in one run.
MaxClients == 2
\* Largest value Date.now() returns (each call is an independent reading).
MaxTime == 1

\* Number of times the effect of useWebPubSub runs (mount, room changes).
MaxRuns == 2
\* Number of connect attempts that end in the catch clause.
MaxFailures == 2
\* Number of client objects (WebSocket, WebPubSubClient) the hook creates:
\* one per effect run and one more after each failed attempt.
MaxSockets == MaxRuns + MaxFailures
\* Number of chat messages the hook's state holds.
MaxMessages == 2

ClientIds == 1..MaxClients
Times == 0..MaxTime
Runs == 1..MaxRuns

\* -------------------------------------------------------- JavaScript values
Undefined == [k |-> "undefined", v |-> ""]
Null == [k |-> "null", v |-> ""]
Str(s) == [k |-> "string", v |-> s]
Num(s) == [k |-> "number", v |-> s]

\* ToBoolean, as applied by `&&`, `!` and `if` to a parsed JSON value.
Truthy(x) ==
  CASE x.k = "undefined" -> FALSE
    [] x.k = "null" -> FALSE
    [] x.k = "string" -> x.v # ""
    [] x.k = "number" -> x.v # "0"
    [] OTHER -> TRUE

\* Values of the declared type (string | undefined) a client may put in the
\* room, user and text fields of a frame.
RoomValues == {Undefined, Str(""), Str("lobby"), Str("general")}
\* Values JSON.parse can also put in the room field: the type assertion on its
\* result (and on req.body) is not checked at run time.
UntypedRoomValues == {Null, Num("0"), Num("42")}
UserValues == {Undefined, Str(""), Str("Alice")}
TextValues == {Undefined, Str(""), Str("hi")}

\* Inbound socket data: text that JSON.parse rejects, the JSON text `null`,
\* or a JSON object with the four fields the handler reads.
\* The ts property of an input is a number or is absent (NoTs).  Neither the
\* frame type nor the request body declares one; a client can send it anyway.
NoTs == -1
ClientTs == MaxTime + 1

InvalidJson == [json |-> "invalid", type |-> Undefined, room |-> Undefined,
                user |-> Undefined, text |-> Undefined, ts |-> NoTs]
NullJson == [json |-> "null", type |-> Undefined, room |-> Undefined,
             user |-> Undefined, text |-> Undefined, ts |-> NoTs]
ObjectJson(t, r, u, x) == [json |-> "object", type |-> t, room |-> r,
                           user |-> u, text |-> x, ts |-> NoTs]

\* The {room, user, text} triples tried: every room value with a user and a
\* text, and with the room "lobby" every user value and every text value.
Triples ==
  {<<r, Str("Alice"), Str("hi")>> : r \in RoomValues}
    \cup {<<Str("lobby"), u, Str("hi")>> : u \in UserValues}
    \cup {<<Str("lobby"), Str("Alice"), x>> : x \in TextValues}

JoinFrames == {ObjectJson(Str("join"), r, Undefined, Undefined) : r \in RoomValues}
SendFrames == {ObjectJson(Str("send"), t[1], t[2], t[3]) : t \in Triples}
OtherFrames == {ObjectJson(t, Str("lobby"), Str("Alice"), Str("hi")) :
                  t \in {Undefined, Str("leave")}}
Frames == {InvalidJson, NullJson} \cup JoinFrames \cup SendFrames \cup OtherFrames

\* Request bodies of POST /chat.
Bodies == {[room |-> t[1], user |-> t[2], text |-> t[3], ts |-> NoTs] : t \in Triples}

\* Send frames and request bodies that carry a ts property of their own.
TsFrames ==
  {[ObjectJson(Str("send"), r, Str("Alice"), Str("hi")) EXCEPT !.ts = ClientTs] :
     r \in {Str("lobby"), Str("general")}}
TsBodies ==
  {[room |-> r, user |-> Str("Alice"), text |-> Str("hi"), ts |-> ClientTs] :
     r \in {Str("lobby"), Str("general")}}

\* Frames whose room is not of the declared type.
UntypedFrames ==
  {ObjectJson(Str("join"), r, Undefined, Undefined) : r \in UntypedRoomValues}
    \cup {ObjectJson(Str("send"), r, Str("Alice"), Str("hi")) : r \in UntypedRoomValues}

\* ------------------------------------------------------------------- state
VARIABLES
  azureService,  \* TRUE iff the managed service client was constructed
  wss,           \* TRUE iff the mock WebSocketServer was created
  socketState,   \* per connection: "none" (not accepted), "open", "errored"
                 \* ('error' emitted, 'close' not yet), "closed"
  clients,       \* the global Set<ClientInfo>
  rooms,         \* the Map room -> Set<ClientInfo>, sets in insertion order
  clientRooms,   \* ClientInfo.rooms of every ClientInfo created so far
  clientUserId,  \* ClientInfo.userId of every ClientInfo created so far
  sent,          \* socket.send calls of the last handler, in call order
  azureSent,     \* sendToAll calls of the last handler
  last,          \* the event the last handler processed
  broadcastThrew,\* an exception left broadcastToRoom in the last handler
  escaped,       \* an exception left the last handler
  res,           \* HTTP response written by the last handler (NoRes: none)
  path           \* delivery function the last handler called, or "none"

\* The for loop of broadcastToRoom, one iteration at a time, and the result
\* of GET /negotiate.
VARIABLES
  loop,          \* the running broadcastToRoom call, NoLoop when none runs
  negotiated     \* the last GET /negotiate: its x-user-id header, the outcome
                 \* of getClientAccessToken and the {url, mode} returned

\* The effect of useWebPubSub(room) in the web client.
VARIABLES
  mounted,       \* the component using the hook is mounted
  run,           \* number of effect runs so far; the last one is current
  effectRoom,    \* per effect run: the `room` its closure captured
  disposed,      \* per effect run: its `disposed` flag
  pc,            \* per effect run: where its connect() chain stands
  socks,         \* client objects created so far, in creation order
  clientRef,     \* clientRef.current: index into socks, 0 for null
  mockModeRef,   \* mockModeRef.current
  connected,     \* the `connected` state
  messages,      \* the `messages` state
  failures,      \* connect attempts that ended in the catch clause
  hlast          \* the last step of the hook and the setters it called

serverVars == <<azureService, wss, socketState, clients, rooms, clientRooms,
                clientUserId,
                sent, azureSent, last, broadcastThrew, escaped, res, path>>
hookVars == <<mounted, run, effectRoom, disposed, pc, socks, clientRef,
              mockModeRef, connected, messages, failures, hlast>>

vars == <<azureService, wss, socketState, clients, rooms, clientRooms,
          clientUserId,
          sent, azureSent, last, broadcastThrew, escaped, res, path,
          loop, negotiated,
          mounted, run, effectRoom, disposed, pc, socks, clientRef,
          mockModeRef, connected, messages, failures, hlast>>

registry == <<clients, rooms, clientRooms>>

NoEvent == [op |-> "none", client |-> 0, data |-> InvalidJson]
NoRes == [status |-> 0, body |-> "none"]
NoLoop == [on |-> FALSE, room |-> Undefined, payload |-> [user |-> Undefined, text |-> Undefined, ts |-> 0],
           start |-> {}, visited |-> {}, attempted |-> <<>>]
NoNegotiated == [header |-> [present |-> FALSE, value |-> <<>>], token |-> "none",
                 mode |-> "none", host |-> "none", user |-> <<>>]
NoStep == [op |-> "none", run |-> 0, sock |-> 0,
           setConnected |-> FALSE, setMessages |-> FALSE, disposed |-> FALSE,
           frame |-> [json |-> "none", type |-> "none", room |-> Undefined,
                      message |-> "undefined", data |-> Undefined]]

\* ----------------------------------------------------------------- helpers
\* Variant: add that adds nothing.
SetAddNone(s, c) == s

\* Variant: add without the membership test.
SetAddDup(s, c) == Append(s, c)

\* Set.prototype.add on an insertion-ordered set.
SetAdd(s, c) == IF \E i \in 1..Len(s) : s[i] = c THEN s ELSE Append(s, c)

\* Variant: delete by position (splice(indexOf(c), 1)), which removes the
\* last element when c is absent.
SetDeleteSplice(s, c) ==
  IF \E i \in 1..Len(s) : s[i] = c
  THEN SelectSeq(s, LAMBDA e : e # c)
  ELSE SubSeq(s, 1, Len(s) - 1)

\* Variant: delete that removes nothing.
SetDeleteKeep(s, c) == s

\* Set.prototype.delete on an insertion-ordered set.
SetDelete(s, c) == SelectSeq(s, LAMBDA e : e # c)

Members(r) == IF r \in DOMAIN rooms THEN {rooms[r][i] : i \in 1..Len(rooms[r])} ELSE {}

ChatMessagePayload(user, text, ts) == [user |-> user, text |-> text, ts |-> ts]

\* Variant: the ts of the input is used when it has one.
PayloadTsFromInput(input, now) == IF input.ts # NoTs THEN input.ts ELSE now

\* ts: Date.now(), in the send branch and in POST /chat alike: the reading
\* of the server's clock, whatever the input holds.
PayloadTs(input, now) == now
NoPayload == ChatMessagePayload(Undefined, Undefined, 0)

JoinedFrame(room) == [type |-> "joined", room |-> room, data |-> NoPayload]
GroupMessage(room, payload) == [type |-> "group-message", room |-> room, data |-> payload]

\* Variant: the loop runs over the global clients set instead of the room's.
broadcastToClients(room, payload, fails) ==
  LET all == SelectSeq([i \in 1..MaxClients |-> i], LAMBDA c : c \in clients)
  IN [sends |-> [i \in 1..Len(all) |->
                   [to |-> all[i], frame |-> GroupMessage(room, payload),
                    ok |-> all[i] \notin fails]],
      threw |-> FALSE]

\* Variant: no try/catch around socket.send, the first throwing send ends
\* the loop and leaves the function.
broadcastToRoomNoCatch(room, payload, fails) ==
  IF room \notin DOMAIN rooms
  THEN [sends |-> <<>>, threw |-> FALSE]
  ELSE LET set == rooms[room]
           bad == {i \in 1..Len(set) : set[i] \in fails}
           n == IF bad = {} THEN Len(set)
                ELSE CHOOSE i \in bad : \A j \in bad : i <= j
       IN [sends |-> [i \in 1..n |->
                        [to |-> set[i], frame |-> GroupMessage(room, payload),
                         ok |-> set[i] \notin fails]],
           threw |-> bad # {}]

\* Variant: the loop stops one member early.
broadcastToRoomSkipLast(room, payload, fails) ==
  IF room \notin DOMAIN rooms
  THEN [sends |-> <<>>, threw |-> FALSE]
  ELSE [sends |-> [i \in 1..(Len(rooms[room]) - 1) |->
                     [to |-> rooms[room][i],
                      frame |-> GroupMessage(room, payload),
                      ok |-> rooms[room][i] \notin fails]],
        threw |-> FALSE]

\* Variant: no test for a missing room, iterating undefined throws.
broadcastToRoomNoGuard(room, payload, fails) ==
  IF room \notin DOMAIN rooms
  THEN [sends |-> <<>>, threw |-> TRUE]
  ELSE [sends |-> [i \in 1..Len(rooms[room]) |->
                     [to |-> rooms[room][i],
                      frame |-> GroupMessage(room, payload),
                      ok |-> rooms[room][i] \notin fails]],
        threw |-> FALSE]

\* broadcastToRoom(room, payload): one socket.send per member, in the set's
\* iteration order; a throwing send is caught and the loop goes on.  `fails`
\* is the set of clients whose socket.send throws.
broadcastToRoom(room, payload, fails) ==
  IF room \notin DOMAIN rooms
  THEN [sends |-> <<>>, threw |-> FALSE]
  ELSE [sends |-> [i \in 1..Len(rooms[room]) |->
                     [to |-> rooms[room][i],
                      frame |-> GroupMessage(room, payload),
                      ok |-> rooms[room][i] \notin fails]],
        threw |-> FALSE]

\* Variant: the mock server is created whatever the mode.
ensureMockServerAlways(azure) == TRUE

\* ------------------------------------------------------------------- Init
\* State after the module has run: azureService is set from the environment
\* and ensureMockServer() has been called once.
ensureMockServer(azure) == ~azure

\* The hook before the component is mounted: useState(false), useState([]),
\* useRef(null), useRef(false).
HookInit ==
  /\ mounted = FALSE
  /\ run = 0
  /\ effectRoom = [k \in Runs |-> Undefined]
  /\ disposed = [k \in Runs |-> FALSE]
  /\ pc = [k \in Runs |-> "none"]
  /\ socks = <<>>
  /\ clientRef = 0
  /\ mockModeRef = FALSE
  /\ connected = FALSE
  /\ messages = <<>>
  /\ failures = 0
  /\ hlast = NoStep

Init ==
  /\ azureService \in BOOLEAN
  /\ wss = ensureMockServer(azureService)
  /\ socketState = [c \in ClientIds |-> "none"]
  /\ clients = {}
  /\ rooms = <<>>
  /\ clientRooms = [c \in ClientIds |-> {}]
  /\ clientUserId = [c \in ClientIds |-> <<>>]
  /\ sent = <<>>
  /\ azureSent = <<>>
  /\ last = NoEvent
  /\ broadcastThrew = FALSE
  /\ escaped = FALSE
  /\ res = NoRes
  /\ path = "none"
  /\ loop = NoLoop
  /\ negotiated = NoNegotiated
  /\ HookInit

\* ------------------------------------------------------ user identifiers
\* User identifiers are sequences of characters.  The characters tried: a
\* letter, and three characters that encodeURIComponent escapes and that a
\* query string treats specially.
IdChars == {"j", " ", "%", "+"}
MaxIdLen == 2
UserIdValues == UNION {[1..n -> IdChars] : n \in 0..MaxIdLen}
\* req.header("x-user-id"): undefined when the request has no such header.
HeaderValues ==
  {[present |-> FALSE, value |-> <<>>]}
    \cup {[present |-> TRUE, value |-> v] : v \in UserIdValues}
\* Values randomUUID() returns.
Uuids == {"uuid1", "uuid2"}

RECURSIVE Concat(_)
Concat(ss) == IF ss = <<>> THEN <<>> ELSE Head(ss) \o Concat(Tail(ss))

\* encodeURIComponent: letters, digits and - stay, every other character
\* becomes % and two hex digits.
encodeURIComponent(id) ==
  Concat([i \in 1..Len(id) |->
            CASE id[i] = " " -> <<"%", "2", "0">>
              [] id[i] = "%" -> <<"%", "2", "5">>
              [] id[i] = "+" -> <<"%", "2", "B">>
              [] OTHER -> <<id[i]>>])

\* URL.searchParams.get("user"), as the connection handler reads the user
\* back from the URL: + is a space, %XX is the character with that code.
RECURSIVE searchParamsGet(_)
searchParamsGet(q) ==
  IF q = <<>> THEN <<>>
  ELSE IF q[1] = "+" THEN <<" ">> \o searchParamsGet(Tail(q))
  ELSE IF q[1] = "%" /\ Len(q) >= 3 /\ SubSeq(q, 2, 3) \in {<<"2", "0">>, <<"2", "5">>, <<"2", "B">>}
  THEN <<CASE q[3] = "0" -> " " [] q[3] = "5" -> "%" [] OTHER -> "+">>
         \o searchParamsGet(SubSeq(q, 4, Len(q)))
  ELSE <<q[1]>> \o searchParamsGet(Tail(q))

\* `anon-${randomUUID()}`
AnonId(uuid) == <<"anon-", uuid>>

\* ----------------------------------------------------------------- actions
\* Variant: the registry holds one ClientInfo per user id.
ConnectionClientsByUser(c, id) == {d \in clients : clientUserId[d] # id} \cup {c}

\* Variant: the new ClientInfo is not tracked.
ConnectionClientsSkip(c, id) == clients

\* clients.add(client): a Set of objects, so of object identities.
ConnectionClients(c, id) == clients \cup {c}

\* searchParams.get("user") || `anon-${randomUUID()}`: q is the value of the
\* user parameter in the connection URL, empty when the URL has none.
ConnectionUserId(q, uuid) ==
  IF searchParamsGet(q) # <<>> THEN searchParamsGet(q) ELSE AnonId(uuid)

\* wss.on("connection"): a new ClientInfo with the user id of the URL and an
\* empty rooms set is added to clients.  Connections are numbered in the
\* order they are accepted.
ConnectionHandler(c, q, uuid) ==
  /\ wss
  /\ socketState[c] = "none"
  /\ \A d \in ClientIds : d < c => socketState[d] # "none"
  /\ socketState' = [socketState EXCEPT ![c] = "open"]
  /\ clientRooms' = [clientRooms EXCEPT ![c] = {}]
  /\ clientUserId' = [clientUserId EXCEPT ![c] = ConnectionUserId(q, uuid)]
  /\ clients' = ConnectionClients(c, ConnectionUserId(q, uuid))
  /\ sent' = <<>>
  /\ azureSent' = <<>>
  /\ last' = [op |-> "connection", client |-> c, data |-> InvalidJson]
  /\ broadcastThrew' = FALSE
  /\ escaped' = FALSE
  /\ res' = NoRes
  /\ path' = "none"
  /\ UNCHANGED <<azureService, wss, rooms, loop, negotiated>>
  /\ UNCHANGED hookVars

\* A connection with the URL /negotiate returns for the x-user-id "j".
OnConnection(c) == ConnectionHandler(c, <<"j">>, "uuid1")

\* The user parameters of the connection URLs tried: none, and two that
\* decode to different identifiers.
ConnectionQueries == {<<>>, <<"j">>, <<"%", "2", "0">>}

\* A connection with any of these URLs; randomUUID() returns a value it has
\* not returned before.
OnConnectionAs(c, q, uuid) ==
  /\ \A d \in ClientIds : clientUserId[d] # AnonId(uuid)
  /\ ConnectionHandler(c, q, uuid)

\* Variant: the room is not recorded in client.rooms.
JoinClientRoomsSkip(c, room) == clientRooms

\* Variant: joining a room leaves every other room.
JoinRoomsExclusive(c, room) ==
  [r \in DOMAIN rooms \cup {room} |->
     IF r = room
     THEN SetAdd(IF room \in DOMAIN rooms THEN rooms[room] ELSE <<>>, c)
     ELSE SetDelete(rooms[r], c)]

\* The join branch of the message handler: get or create the room's set,
\* add the client to it and the room to client.rooms.
JoinRooms(c, room) ==
  [r \in DOMAIN rooms \cup {room} |->
     IF r = room
     THEN SetAdd(IF room \in DOMAIN rooms THEN rooms[room] ELSE <<>>, c)
     ELSE rooms[r]]

JoinClientRooms(c, room) == [clientRooms EXCEPT ![c] = @ \cup {room}]

\* Variant: the acknowledgment is written to every member of the room.
JoinAckRoom(c, room, fails) ==
  LET set == SetAdd(IF room \in DOMAIN rooms THEN rooms[room] ELSE <<>>, c)
  IN [i \in 1..Len(set) |->
        [to |-> set[i], frame |-> JoinedFrame(room), ok |-> set[i] \notin fails]]

\* The acknowledgment of a join: one joined frame on the joining socket.
JoinAck(c, room, fails) ==
  <<[to |-> c, frame |-> JoinedFrame(room), ok |-> c \notin fails]>>

\* Variant: a send frame takes the join branch too.
IsJoinOrSend(msg) == msg.type \in {Str("join"), Str("send")} /\ Truthy(msg.room)

\* Variant: the type of the frame is not tested.
IsJoinAnyType(msg) == Truthy(msg.room)

IsJoin(msg) == msg.type = Str("join") /\ Truthy(msg.room)

\* Variant: the user field is not checked (as in POST /chat).
IsSendNoUser(msg) ==
  msg.type = Str("send") /\ Truthy(msg.room) /\ Truthy(msg.text)

IsSend(msg) ==
  msg.type = Str("send") /\ Truthy(msg.room) /\ Truthy(msg.text) /\ Truthy(msg.user)

\* Variant: the send branch is taken only for a member of the room.
SendBranchMember(c, msg) == IsSend(msg) /\ msg.room \in clientRooms[c]

\* else if (msg.type === "send" && ...): the condition reads the frame only,
\* not client.rooms.
SendBranch(c, msg) == IsSend(msg)

\* Variant: a catch clause that throws the error again.
TryCatchRethrow(threw) == threw

\* try { ... } catch { }: whatever the body throws, nothing leaves the
\* statement.
TryCatch(threw) == FALSE

\* Whether the body of the message handler's try block throws: JSON.parse
\* on text that is not JSON, msg.type on null, or the join acknowledgment
\* on a socket whose send throws (broadcastToRoom reports its own).
MessageThrows(c, data, fails) ==
  \/ data.json = "invalid"
  \/ data.json = "null"
  \/ data.json = "object" /\ IsJoin(data) /\ c \in fails

\* The listener of socket.on("message"): the whole body runs inside
\* try/catch, so a JSON.parse error, a property read on null and a throwing
\* socket.send all end the handler silently.  `fails` are the clients whose
\* socket.send throws during this handler, `ts` is the reading of Date.now().
\* The listener itself never looks at the socket's state.
MessageHandler(c, data, fails, ts) ==
  /\ last' = [op |-> "message", client |-> c, data |-> data]
  /\ azureSent' = <<>>
  /\ IF data.json # "object"
     THEN /\ sent' = <<>>
          /\ broadcastThrew' = FALSE
          /\ path' = "none"
          /\ escaped' = TryCatch(MessageThrows(c, data, fails))
          /\ UNCHANGED registry
     ELSE IF IsJoin(data)
     THEN /\ rooms' = JoinRooms(c, data.room)
          /\ clientRooms' = JoinClientRooms(c, data.room)
          /\ sent' = JoinAck(c, data.room, fails)
          /\ broadcastThrew' = FALSE
          /\ path' = "none"
          /\ escaped' = TryCatch(MessageThrows(c, data, fails))
          /\ UNCHANGED clients
     ELSE IF SendBranch(c, data)
     THEN LET b == broadcastToRoom(data.room,
                     ChatMessagePayload(data.user, data.text, PayloadTs(data, ts)),
                     fails)
          IN /\ sent' = b.sends
             /\ broadcastThrew' = b.threw
             /\ path' = "broadcastToRoom"
             /\ escaped' = TryCatch(b.threw)
             /\ UNCHANGED registry
     ELSE /\ sent' = <<>>
          /\ broadcastThrew' = FALSE
          /\ path' = "none"
          /\ escaped' = TryCatch(FALSE)
          /\ UNCHANGED registry
  /\ res' = NoRes
  /\ UNCHANGED <<azureService, wss, clientUserId, socketState, loop, negotiated>>
  /\ UNCHANGED hookVars

\* A message event: ws emits it only while the socket is open.
OnMessage(c, data, fails, ts) ==
  /\ wss
  /\ socketState[c] = "open"
  /\ MessageHandler(c, data, fails, ts)

\* Variant: a room whose set becomes empty is deleted from the map.
CloseRoomsEvict(c) ==
  LET after == [r \in DOMAIN rooms |->
                  IF r \in clientRooms[c] THEN SetDelete(rooms[r], c) ELSE rooms[r]]
      keep == {r \in DOMAIN rooms : after[r] # <<>>}
  IN [r \in keep |-> after[r]]

\* Variant: every room the client had joined is emptied.
CloseRoomsClear(c) ==
  [r \in DOMAIN rooms |-> IF r \in clientRooms[c] THEN <<>> ELSE rooms[r]]

\* Variant: the rooms are left as they are.
CloseRoomsKeep(c) == rooms

\* socket.on("close"): delete the client from the set of every room named
\* in client.rooms (a room missing from the map is skipped by `?.`), then
\* from clients.  client.rooms itself is not cleared.
CloseRooms(c) ==
  [r \in DOMAIN rooms |->
     IF r \in clientRooms[c] THEN SetDelete(rooms[r], c) ELSE rooms[r]]

\* The listener of socket.on("close").  Nothing in it can throw.
CloseHandler(c) ==
  /\ socketState' = [socketState EXCEPT ![c] = "closed"]
  /\ rooms' = CloseRooms(c)
  /\ clients' = clients \ {c}
  /\ sent' = <<>>
  /\ azureSent' = <<>>
  /\ broadcastThrew' = FALSE
  /\ escaped' = FALSE
  /\ res' = NoRes
  /\ path' = "none"
  /\ UNCHANGED <<azureService, wss, clientUserId, clientRooms, loop, negotiated>>
  /\ UNCHANGED hookVars

\* The close event of a socket: ws emits it once, for an open socket or
\* after the socket's error event.
OnClose(c) ==
  /\ wss
  /\ socketState[c] \in {"open", "errored"}
  /\ last' = [op |-> "close", client |-> c, data |-> InvalidJson]
  /\ CloseHandler(c)

\* Variant: the user is required too, as in the socket's send branch.
ChatValidUser(body) == Truthy(body.room) /\ Truthy(body.text) /\ Truthy(body.user)

\* Variant: only the room is required.
ChatValidRoom(body) == Truthy(body.room)

\* The validation of POST /chat: `if (!room || !text)` answers 400.
ChatValid(body) == Truthy(body.room) /\ Truthy(body.text)

\* app.post("/chat"): 400 when room or text is falsy; otherwise one payload
\* is built and handed to the managed service or to broadcastToRoom, and
\* {ok: true} is returned.  A rejected sendToAll (or anything else thrown
\* in the try block) is answered with 500 by the catch clause.
PostChat(body, fails, ts, azureFails) ==
  /\ last' = [op |-> "chat", client |-> 0,
              data |-> [ObjectJson(Undefined, body.room, body.user, body.text)
                          EXCEPT !.ts = body.ts]]
  /\ IF ~ChatValid(body)
     THEN /\ res' = [status |-> 400, body |-> "room/text required"]
          /\ sent' = <<>>
          /\ azureSent' = <<>>
          /\ broadcastThrew' = FALSE
          /\ path' = "none"
          /\ escaped' = TryCatch(FALSE)
     ELSE LET payload == ChatMessagePayload(body.user, body.text, PayloadTs(body, ts)) IN
          IF azureService
          THEN /\ azureSent' = <<[group |-> body.room, data |-> payload,
                                  ok |-> ~azureFails]>>
               /\ sent' = <<>>
               /\ broadcastThrew' = FALSE
               /\ path' = "sendToAll"
               /\ escaped' = TryCatch(azureFails)
               /\ res' = IF azureFails
                         THEN [status |-> 500, body |-> "Failed to broadcast message."]
                         ELSE [status |-> 200, body |-> "ok"]
          ELSE LET b == broadcastToRoom(body.room, payload, fails)
               IN /\ sent' = b.sends
                  /\ azureSent' = <<>>
                  /\ broadcastThrew' = b.threw
                  /\ path' = "broadcastToRoom"
                  /\ escaped' = TryCatch(b.threw)
                  /\ res' = IF b.threw
                            THEN [status |-> 500, body |-> "Failed to broadcast message."]
                            ELSE [status |-> 200, body |-> "ok"]
  /\ UNCHANGED <<azureService, wss, clientUserId, socketState, clients, rooms, clientRooms,
                 loop, negotiated>>
  /\ UNCHANGED hookVars

\* The inputs of a handler that decide its effects: the sockets it writes to
\* (only their send can throw) and the reading of Date.now(), which reaches a
\* frame only when the broadcast has a recipient or goes to the service.
MessageTargets(c, data) ==
  IF data.json # "object" THEN {}
  ELSE IF IsJoin(data) THEN {c}
  ELSE IF IsSend(data) THEN Members(data.room)
  ELSE {}

MessageTimes(data) ==
  IF data.json = "object" /\ ~IsJoin(data) /\ IsSend(data) /\ Members(data.room) # {}
  THEN Times ELSE {0}

ChatTargets(body) == IF ChatValid(body) /\ ~azureService THEN Members(body.room) ELSE {}

ChatTimes(body) ==
  IF ChatValid(body) /\ (azureService \/ Members(body.room) # {}) THEN Times ELSE {0}

ChatAzureFails(body) == IF ChatValid(body) /\ azureService THEN BOOLEAN ELSE {FALSE}

Next ==
  \/ \E c \in ClientIds : OnConnection(c)
  \/ \E c \in ClientIds, data \in Frames :
       \E fails \in SUBSET MessageTargets(c, data), ts \in MessageTimes(data) :
         OnMessage(c, data, fails, ts)
  \/ \E c \in ClientIds : OnClose(c)
  \/ \E body \in Bodies :
       \E fails \in SUBSET ChatTargets(body), ts \in ChatTimes(body),
          azureFails \in ChatAzureFails(body) :
         PostChat(body, fails, ts, azureFails)

Spec == Init /\ [][Next]_vars

\* The same server, with connections of several users and of none.
NextUsers ==
  \/ Next
  \/ \E c \in ClientIds, q \in ConnectionQueries, uuid \in Uuids :
       OnConnectionAs(c, q, uuid)

SpecUsers == Init /\ [][NextUsers]_vars

\* The same server, with clients that also put a ts of their own into send
\* frames and request bodies.
NextClientTs ==
  \/ Next
  \/ \E c \in ClientIds, data \in TsFrames :
       \E fails \in SUBSET MessageTargets(c, data), ts \in MessageTimes(data) :
         OnMessage(c, data, fails, ts)
  \/ \E body \in TsBodies :
       \E fails \in SUBSET ChatTargets(body), ts \in ChatTimes(body),
          azureFails \in ChatAzureFails(body) :
         PostChat(body, fails, ts, azureFails)

SpecClientTs == Init /\ [][NextClientTs]_vars

\* The same server, with clients that also send rooms of other JSON types.
NextUntyped ==
  \/ Next
  \/ \E c \in ClientIds, data \in UntypedFrames :
       \E fails \in SUBSET MessageTargets(c, data), ts \in MessageTimes(data) :
         OnMessage(c, data, fails, ts)

SpecUntyped == Init /\ [][NextUntyped]_vars

\* The listeners the connection handler registers for the socket's "error"
\* event: it registers "message" and "close" only.
ErrorListeners == {}

\* The socket emits "error" (ws does so on a transport or protocol error and
\* emits "close" afterwards).  An EventEmitter with no "error" listener
\* throws the error from emit; no code of the server runs.
OnError(c) ==
  /\ wss
  /\ socketState[c] = "open"
  /\ socketState' = [socketState EXCEPT ![c] = "errored"]
  /\ last' = [op |-> "error", client |-> c, data |-> InvalidJson]
  /\ escaped' = (ErrorListeners = {})
  /\ sent' = <<>>
  /\ azureSent' = <<>>
  /\ broadcastThrew' = FALSE
  /\ res' = NoRes
  /\ path' = "none"
  /\ UNCHANGED <<azureService, wss, clientUserId, clients, rooms, clientRooms, loop, negotiated>>
  /\ UNCHANGED hookVars

\* The server with sockets that raise transport errors.
NextError ==
  \/ Next
  \/ \E c \in ClientIds : OnError(c)

SpecError == Init /\ [][NextError]_vars

\* The close listener run once more for a socket whose close event has
\* already been processed.
OnCloseAgain(c) ==
  /\ wss
  /\ socketState[c] = "closed"
  /\ last' = [op |-> "reclose", client |-> c, data |-> InvalidJson]
  /\ CloseHandler(c)

\* The server with close listeners that are run twice.
NextReclose ==
  \/ Next
  \/ \E c \in ClientIds : OnCloseAgain(c)

SpecReclose == Init /\ [][NextReclose]_vars

\* The message listener run for a socket whose close event has already been
\* processed.
OnLateMessage(c, data, fails, ts) ==
  /\ wss
  /\ socketState[c] = "closed"
  /\ MessageHandler(c, data, fails, ts)

\* The server with frames handled after the close of their socket.
NextLate ==
  \/ Next
  \/ \E c \in ClientIds, data \in JoinFrames \cup SendFrames :
       \E fails \in SUBSET MessageTargets(c, data), ts \in MessageTimes(data) :
         OnLateMessage(c, data, fails, ts)

SpecLate == Init /\ [][NextLate]_vars

\* ---------------------------------------------------------- GET /negotiate
\* Variant: the header is used whenever it is present, also when empty
\* (?? in place of ||).
NegotiateUserIdNullish(header, uuid) ==
  IF header.present THEN header.value ELSE AnonId(uuid)

\* req.header("x-user-id") || `anon-${randomUUID()}`
NegotiateUserId(header, uuid) ==
  IF header.present /\ header.value # <<>> THEN header.value ELSE AnonId(uuid)

\* app.get("/negotiate"): with the managed service a client access token is
\* requested for the user id and its url returned with mode "azure" (a
\* rejected request is answered 500 by the catch clause); without it the
\* URL of the mock server with the user id as query parameter, mode "mock".
Negotiate(header, uuid, tokenFails) ==
  LET userId == NegotiateUserId(header, uuid) IN
  /\ last' = [op |-> "negotiate", client |-> 0, data |-> InvalidJson]
  /\ IF azureService
     THEN IF tokenFails
          THEN /\ res' = [status |-> 500, body |-> "Failed to generate negotiate token."]
               /\ negotiated' = [header |-> header, token |-> "rejected",
                                 mode |-> "none", host |-> "none", user |-> <<>>]
          ELSE /\ res' = [status |-> 200, body |-> "negotiated"]
               /\ negotiated' = [header |-> header, token |-> "resolved",
                                 mode |-> "azure", host |-> "token.url", user |-> userId]
     ELSE /\ res' = [status |-> 200, body |-> "negotiated"]
          /\ negotiated' = [header |-> header, token |-> "none",
                            mode |-> "mock", host |-> "ws://localhost:WS_PORT",
                            user |-> encodeURIComponent(userId)]
  /\ sent' = <<>>
  /\ azureSent' = <<>>
  /\ broadcastThrew' = FALSE
  /\ escaped' = TryCatch(azureService /\ tokenFails)
  /\ path' = "none"
  /\ UNCHANGED <<azureService, wss, clientUserId, socketState, clients, rooms, clientRooms, loop>>
  /\ UNCHANGED hookVars

\* The inputs that reach the result: the uuid only without a usable header,
\* the token only with the managed service.
NegotiateUuids(header) ==
  IF header.present /\ header.value # <<>> THEN {"uuid1"} ELSE Uuids
NegotiateTokenFails == IF azureService THEN BOOLEAN ELSE {FALSE}

\* The server answering GET /negotiate while connections come and go.
NextNegotiate ==
  \/ \E c \in ClientIds : OnConnection(c)
  \/ \E c \in ClientIds : OnClose(c)
  \/ \E header \in HeaderValues :
       \E uuid \in NegotiateUuids(header), tokenFails \in NegotiateTokenFails :
         Negotiate(header, uuid, tokenFails)

SpecNegotiate == Init /\ [][NextNegotiate]_vars

\* ------------------------------------------- broadcastToRoom, step by step
\* Variant: the loop body awaits the send, so other handlers run between
\* two iterations.
LoopYieldsAwait == TRUE

\* Whether other handlers can run between two iterations of the for loop of
\* broadcastToRoom: the function is synchronous and socket.send calls no
\* listener of the server, so the loop runs to completion.
LoopYields == FALSE

\* No broadcast is running, or the running one has yielded.
HandlersMayRun == LoopYields \/ ~loop.on

\* The element the iterator of the room's set returns next: the first one,
\* in insertion order, it has not returned yet (the iterator is live).
LoopNext ==
  LET set == rooms[loop.room]
      todo == {i \in 1..Len(set) : set[i] \notin loop.visited}
  IN IF todo = {} THEN 0 ELSE set[CHOOSE i \in todo : \A j \in todo : i <= j]

\* A valid send frame: rooms.get(room) is read; with no entry the function
\* returns, otherwise the frame is serialized and the loop starts.
LoopStart(c, data, ts) ==
  /\ wss
  /\ ~loop.on
  /\ socketState[c] = "open"
  /\ data.json = "object" /\ ~IsJoin(data) /\ IsSend(data)
  /\ last' = [op |-> "message", client |-> c, data |-> data]
  /\ loop' = [on |-> data.room \in DOMAIN rooms,
              room |-> data.room,
              payload |-> ChatMessagePayload(data.user, data.text, PayloadTs(data, ts)),
              start |-> Members(data.room),
              visited |-> {},
              attempted |-> <<>>]
  /\ sent' = <<>>
  /\ azureSent' = <<>>
  /\ broadcastThrew' = FALSE
  /\ escaped' = FALSE
  /\ res' = NoRes
  /\ path' = "broadcastToRoom"
  /\ UNCHANGED <<azureService, wss, clientUserId, socketState, clients, rooms, clientRooms, negotiated>>
  /\ UNCHANGED hookVars

\* One iteration: socket.send on the next member, inside try/catch.
LoopStep(fail) ==
  /\ loop.on
  /\ LoopNext # 0
  /\ loop' = [loop EXCEPT
                !.visited = @ \cup {LoopNext},
                !.attempted = Append(@, [to |-> LoopNext,
                                         frame |-> GroupMessage(loop.room, loop.payload),
                                         ok |-> ~fail])]
  /\ sent' = loop'.attempted
  /\ UNCHANGED <<azureService, wss, clientUserId, socketState, clients, rooms, clientRooms,
                 azureSent, last, broadcastThrew, escaped, res, path, negotiated>>
  /\ UNCHANGED hookVars

\* The iterator is exhausted and broadcastToRoom returns.
LoopEnd ==
  /\ loop.on
  /\ LoopNext = 0
  /\ loop' = [loop EXCEPT !.on = FALSE]
  /\ UNCHANGED <<azureService, wss, clientUserId, socketState, clients, rooms, clientRooms,
                 sent, azureSent, last, broadcastThrew, escaped, res, path, negotiated>>
  /\ UNCHANGED hookVars

\* The server with the broadcast of a send frame taken one send at a time.
NextLoop ==
  \/ \E c \in ClientIds : HandlersMayRun /\ OnConnection(c)
  \/ \E c \in ClientIds, data \in JoinFrames : \E fails \in SUBSET {c} :
       HandlersMayRun /\ OnMessage(c, data, fails, 0)
  \/ \E c \in ClientIds : HandlersMayRun /\ OnClose(c)
  \/ \E c \in ClientIds, data \in SendFrames, ts \in Times : LoopStart(c, data, ts)
  \/ \E fail \in BOOLEAN : LoopStep(fail)
  \/ LoopEnd

SpecLoop == Init /\ [][NextLoop]_vars

\* ------------------------------------------------- useWebPubSub(room)
\* The rooms the component passes to the hook.
HookRooms == {Str("lobby"), Str("general")}

\* A chat message as the value of message.data / e.data.
ChatMsgValue(text) == [k |-> "object", v |-> text]

\* Frames a mock socket delivers to ws.onmessage: the parsed JSON text, with
\* message "object" when the frame has a message field.
HookFrame(j, t, r, m, d) == [json |-> j, type |-> t, room |-> r, message |-> m, data |-> d]
HookJoinedFrame(room) == HookFrame("object", "joined", room, "undefined", Undefined)
HookGroupMessage(room, text) ==
  HookFrame("object", "group-message", room, "object", ChatMsgValue(text))
NoFrame == HookFrame("none", "none", Undefined, "undefined", Undefined)

\* What the mock server writes to a socket that joined `room`.
ServerFrames(room) ==
  {HookJoinedFrame(room), HookGroupMessage(room, "hi"), HookGroupMessage(room, "yo")}

\* Any other data a socket can deliver: text that is not JSON, the text
\* null, frames of other types and rooms, frames without message or data.
AnyFrames ==
  {HookFrame("invalid", "none", Undefined, "undefined", Undefined),
   HookFrame("null", "none", Undefined, "undefined", Undefined)}
    \cup {HookFrame("object", t, r, "object", ChatMsgValue("hi")) :
            t \in {"joined", "group-message", "send"}, r \in HookRooms \cup {Undefined}}
    \cup {HookFrame("object", "group-message", r, "undefined", Undefined) : r \in HookRooms}
    \cup {HookFrame("object", "group-message", r, "object", d) :
            r \in HookRooms, d \in {Undefined, Null}}

NewSock(k, kind) ==
  [run |-> k, kind |-> kind, state |-> "connecting", stopped |-> FALSE,
   joined |-> FALSE, wasOpen |-> FALSE]

\* A step of the hook for effect run k and client s: whether it called
\* setConnected / setMessages, the value of `disposed` it ran with and the
\* frame it handled.
Step(op, k, s, setC, setM, frame) ==
  [op |-> op, run |-> k, sock |-> s, setConnected |-> setC, setMessages |-> setM,
   disposed |-> disposed[k], frame |-> frame]

\* The effect body: disposed = false and connect(), which issues the fetch
\* of /negotiate.
StartEffect(k, room) ==
  /\ run' = k
  /\ effectRoom' = [effectRoom EXCEPT ![k] = room]
  /\ pc' = [pc EXCEPT ![k] = "negotiate"]

\* The cleanup's c.stop() / c.close() on clientRef.current, if not null:
\* an open or connecting client starts closing.
CleanupSocks(k) ==
  IF clientRef = 0 THEN socks
  ELSE [socks EXCEPT ![clientRef] =
          [@ EXCEPT !.stopped = TRUE,
                    !.state = IF @ \in {"connecting", "open", "errored"}
                              THEN "closing" ELSE @]]

\* The component is mounted with a room: the effect runs for the first time.
Mount(room) ==
  /\ ~mounted
  /\ run = 0
  /\ mounted' = TRUE
  /\ StartEffect(1, room)
  /\ hlast' = Step("mount", 1, 0, FALSE, FALSE, NoFrame)
  /\ UNCHANGED <<disposed, socks, clientRef, mockModeRef, connected, messages, failures>>
  /\ UNCHANGED <<serverVars, loop, negotiated>>

\* The room prop changes: React runs the cleanup of the current effect run
\* and then the effect again, in one commit.
RoomChange(room) ==
  /\ mounted
  /\ run < MaxRuns
  /\ room # effectRoom[run]
  /\ disposed' = [disposed EXCEPT ![run] = TRUE]
  /\ socks' = CleanupSocks(run)
  /\ clientRef' = 0
  /\ StartEffect(run + 1, room)
  /\ hlast' = Step("cleanup", run, clientRef, FALSE, FALSE, NoFrame)
  /\ UNCHANGED <<mounted, mockModeRef, connected, messages, failures>>
  /\ UNCHANGED <<serverVars, loop, negotiated>>

\* The component unmounts: the cleanup of the current effect run.
Unmount ==
  /\ mounted
  /\ mounted' = FALSE
  /\ disposed' = [disposed EXCEPT ![run] = TRUE]
  /\ socks' = CleanupSocks(run)
  /\ clientRef' = 0
  /\ hlast' = Step("cleanup", run, clientRef, FALSE, FALSE, NoFrame)
  /\ UNCHANGED <<run, effectRoom, pc, mockModeRef, connected, messages, failures>>
  /\ UNCHANGED <<serverVars, loop, negotiated>>

\* fetch and resp.json() resolve: mockModeRef is set, the client object is
\* created and stored in clientRef.current, its handlers are installed; the
\* Azure client is started and connect() awaits client.start().  `disposed`
\* is not read.
NegotiateResolved(k) ==
  /\ pc[k] = "negotiate"
  /\ Len(socks) < MaxSockets
  /\ mockModeRef' = ~azureService
  /\ socks' = Append(socks, NewSock(k, IF azureService THEN "azure" ELSE "mock"))
  /\ clientRef' = Len(socks) + 1
  /\ pc' = [pc EXCEPT ![k] = IF azureService THEN "starting" ELSE "settled"]
  /\ hlast' = Step("negotiated", k, Len(socks) + 1, FALSE, FALSE, NoFrame)
  /\ UNCHANGED <<mounted, run, effectRoom, disposed, connected, messages, failures>>
  /\ UNCHANGED <<serverVars, loop, negotiated>>

\* The catch clause of connect(): setTimeout(connect, 1200).
CatchPc(k) == "timer"

\* fetch or resp.json() rejects: the catch clause runs.
NegotiateRejected(k) ==
  /\ pc[k] = "negotiate"
  /\ failures < MaxFailures
  /\ failures' = failures + 1
  /\ connected' = FALSE
  /\ pc' = [pc EXCEPT ![k] = CatchPc(k)]
  /\ hlast' = Step("catch", k, 0, TRUE, FALSE, NoFrame)
  /\ UNCHANGED <<mounted, run, effectRoom, disposed, socks, clientRef, mockModeRef, messages>>
  /\ UNCHANGED <<serverVars, loop, negotiated>>

\* The client object the running connect() of effect run k created last.
ChainSock(k) ==
  LET mine == {i \in 1..Len(socks) : socks[i].run = k}
  IN IF mine = {} THEN 0 ELSE CHOOSE i \in mine : \A j \in mine : j <= i

\* await client.start() rejects (the Azure client could not connect, or was
\* stopped meanwhile): the catch clause runs.
StartRejected(k) ==
  /\ pc[k] = "starting"
  /\ failures < MaxFailures
  /\ socks[ChainSock(k)].state \in {"connecting", "closing"}
  /\ socks' = [socks EXCEPT ![ChainSock(k)] = [@ EXCEPT !.state = "closed"]]
  /\ failures' = failures + 1
  /\ connected' = FALSE
  /\ pc' = [pc EXCEPT ![k] = CatchPc(k)]
  /\ hlast' = Step("catch", k, ChainSock(k), TRUE, FALSE, NoFrame)
  /\ UNCHANGED <<mounted, run, effectRoom, disposed, clientRef, mockModeRef, messages>>
  /\ UNCHANGED <<serverVars, loop, negotiated>>

\* The timer set by the catch clause fires and calls connect().  The timer
\* is never cleared and connect() does not read `disposed`.
TimerFired(k) ==
  /\ pc[k] = "timer"
  /\ pc' = [pc EXCEPT ![k] = "negotiate"]
  /\ hlast' = Step("timer", k, 0, FALSE, FALSE, NoFrame)
  /\ UNCHANGED <<mounted, run, effectRoom, disposed, socks, clientRef, mockModeRef,
                 connected, messages, failures>>
  /\ UNCHANGED <<serverVars, loop, negotiated>>

\* ws.onopen / client.on("connected"): return when disposed; otherwise
\* setConnected(true) and join the room.  The resolved client.start() ends
\* the connect() of the Azure branch.
SockOpen(s) ==
  LET k == socks[s].run IN
  /\ socks[s].state = "connecting"
  /\ socks' = [socks EXCEPT ![s] = [@ EXCEPT !.state = "open", !.wasOpen = TRUE,
                                             !.joined = ~disposed[k]]]
  /\ connected' = IF disposed[k] THEN connected ELSE TRUE
  /\ pc' = IF socks[s].kind = "azure" /\ pc[k] = "starting" /\ ChainSock(k) = s
           THEN [pc EXCEPT ![k] = "settled"] ELSE pc
  /\ hlast' = Step("open", k, s, ~disposed[k], FALSE, NoFrame)
  /\ UNCHANGED <<mounted, run, effectRoom, disposed, clientRef, mockModeRef,
                 messages, failures>>
  /\ UNCHANGED <<serverVars, loop, negotiated>>

\* ws.onerror (the socket failed; its close event follows) and the Azure
\* server-data-message of type error (the client stays connected): return
\* when disposed, otherwise setConnected(false).
SockError(s) ==
  LET k == socks[s].run IN
  /\ \/ socks[s].kind = "mock" /\ socks[s].state \in {"connecting", "open"}
     \/ socks[s].kind = "azure" /\ socks[s].state = "open"
  /\ socks' = [socks EXCEPT ![s] =
                 [@ EXCEPT !.state = IF socks[s].kind = "mock" THEN "errored" ELSE @]]
  /\ connected' = IF disposed[k] THEN connected ELSE FALSE
  /\ hlast' = Step("error", k, s, ~disposed[k], FALSE, NoFrame)
  /\ UNCHANGED <<mounted, run, effectRoom, disposed, pc, clientRef, mockModeRef,
                 messages, failures>>
  /\ UNCHANGED <<serverVars, loop, negotiated>>

\* ws.onclose / client.on("disconnected"): !disposed && setConnected(false).
\* Nothing else happens: no connect() is called and no timer is set.
SockClose(s) ==
  LET k == socks[s].run IN
  /\ \/ socks[s].kind = "mock" /\ socks[s].state \in {"connecting", "open", "errored", "closing"}
     \/ socks[s].kind = "azure" /\ socks[s].state \in {"open", "closing"}
  /\ socks' = [socks EXCEPT ![s] = [@ EXCEPT !.state = "closed", !.joined = FALSE]]
  /\ connected' = IF disposed[k] THEN connected ELSE FALSE
  /\ hlast' = Step("close", k, s, ~disposed[k], FALSE, NoFrame)
  /\ UNCHANGED <<mounted, run, effectRoom, disposed, pc, clientRef, mockModeRef,
                 messages, failures>>
  /\ UNCHANGED <<serverVars, loop, negotiated>>

\* Variant: the room of the frame is not compared with the effect's room.
OnMessageAcceptsAnyRoom(frame, room) ==
  /\ frame.json = "object"
  /\ frame.type = "group-message"
  /\ frame.message = "object"
  /\ Truthy(frame.data)

\* The test of ws.onmessage: JSON.parse succeeds (a thrown error, also the
\* one of msg.type on null, is caught) and
\* msg.type === "group-message" && msg.room === room && msg.message?.data.
OnMessageAccepts(frame, room) ==
  /\ frame.json = "object"
  /\ frame.type = "group-message"
  /\ frame.room = room
  /\ frame.message = "object"
  /\ Truthy(frame.data)

\* setMessages((m) => [...m, data])
SetMessages(m, data) == Append(m, data)

\* ws.onmessage / client.on("group-data-message"): a mock frame that passes
\* the test, and every Azure group message, is appended to messages.
\* `disposed` is not read.
SockMessage(s, frame) ==
  LET k == socks[s].run
      accepted == IF socks[s].kind = "mock"
                  THEN OnMessageAccepts(frame, effectRoom[k]) ELSE TRUE
  IN /\ socks[s].state = "open"
     /\ accepted => Len(messages) < MaxMessages
     /\ messages' = IF accepted THEN SetMessages(messages, frame.data) ELSE messages
     /\ hlast' = Step("message", k, s, FALSE, accepted, frame)
     /\ UNCHANGED <<mounted, run, effectRoom, disposed, pc, socks, clientRef,
                    mockModeRef, connected, failures>>
     /\ UNCHANGED <<serverVars, loop, negotiated>>

\* The frames the server side sends to client s: those of the room it
\* joined (the Azure service delivers the group's messages as e.data).
DeliveredFrames(s) ==
  IF ~socks[s].joined THEN {}
  ELSE IF socks[s].kind = "mock" THEN ServerFrames(effectRoom[socks[s].run])
  ELSE {HookGroupMessage(effectRoom[socks[s].run], "hi"),
        HookGroupMessage(effectRoom[socks[s].run], "yo")}

SockIds == 1..MaxSockets

NextHook ==
  \/ \E room \in HookRooms : Mount(room)
  \/ \E room \in HookRooms : RoomChange(room)
  \/ Unmount
  \/ \E k \in Runs : NegotiateResolved(k)
  \/ \E k \in Runs : NegotiateRejected(k)
  \/ \E k \in Runs : StartRejected(k)
  \/ \E k \in Runs : TimerFired(k)
  \/ \E s \in DOMAIN socks : SockOpen(s)
  \/ \E s \in DOMAIN socks : SockError(s)
  \/ \E s \in DOMAIN socks : SockClose(s)
  \/ \E s \in DOMAIN socks : \E frame \in DeliveredFrames(s) : SockMessage(s, frame)

SpecHook == Init /\ [][NextHook]_vars

\* The hook with sockets that deliver arbitrary data.
NextHookFrames ==
  \/ NextHook
  \/ \E s \in DOMAIN socks : \E frame \in AnyFrames :
       socks[s].kind = "mock" /\ SockMessage(s, frame)

SpecHookFrames == Init /\ [][NextHookFrames]_vars

\* Scheduling: a timer that was set fires, a pending fetch is answered once
\* it can no longer fail, a socket that is being opened and not closed gets
\* its open event, and a socket that raised error or is being closed gets
\* its close event.
HookFairness ==
  /\ \A k \in Runs : WF_vars(TimerFired(k))
  /\ \A k \in Runs : WF_vars(NegotiateResolved(k))
  /\ \A s \in SockIds : WF_vars(s \in DOMAIN socks /\ SockOpen(s))
  /\ \A s \in SockIds :
       WF_vars(s \in DOMAIN socks /\ socks[s].state \in {"errored", "closing"} /\ SockClose(s))

SpecHookFair == Init /\ [][NextHook]_vars /\ HookFairness

\* ------------------------------------------------- vocabulary of the claims
NonEmptyString(x) == x.k = "string" /\ x.v # ""
MissingOrEmpty(x) == x = Undefined \/ x = Str("")

Created == {c \in ClientIds : socketState[c] # "none"}
Closed == {c \in ClientIds : socketState[c] = "closed"}
RoomKeys == DOMAIN rooms \cup UNION {clientRooms[c] : c \in ClientIds}

\* The event e is a send frame / a join frame read from a socket.
SendEvent(e) == e.op = "message" /\ e.data.json = "object" /\ e.data.type = Str("send")
JoinEvent(e) == e.op = "message" /\ e.data.json = "object" /\ e.data.type = Str("join")

\* A send frame with a room, a user and a text.
ValidSendEvent(e) ==
  /\ SendEvent(e)
  /\ NonEmptyString(e.data.room)
  /\ NonEmptyString(e.data.user)
  /\ NonEmptyString(e.data.text)

\* A POST /chat in mock mode that passes the handler's validation.
ChatBroadcastEvent(e) ==
  /\ e.op = "chat"
  /\ ~azureService
  /\ NonEmptyString(e.data.room)
  /\ NonEmptyString(e.data.text)

BroadcastEvent(e) == ValidSendEvent(e) \/ ChatBroadcastEvent(e)

Recipients(s) == {s[i].to : i \in DOMAIN s}

\* -------------------------------------------------------------------- C1
\* C1 (as stated): for every room R and every connection C, open or closed,
\* C is in rooms[R] iff R is in C.rooms.
C1_BidirectionalAll ==
  \A c \in Created, r \in RoomKeys : (c \in Members(r)) <=> (r \in clientRooms[c])

\* C1 (amended): for every room R and every connection C whose close event
\* has not been processed, C is in rooms[R] iff R is in C.rooms.
C1_BidirectionalOpen ==
  \A c \in Created \ Closed, r \in RoomKeys :
    (c \in Members(r)) <=> (r \in clientRooms[c])

\* An open connection is a member of a room while a closed connection that
\* had joined a room exists.
C1_Witness ==
  /\ \E c \in Created \ Closed, r \in RoomKeys : c \in Members(r) /\ r \in clientRooms[c]
  /\ \E d \in Closed : clientRooms[d] # {}

\* -------------------------------------------------------------------- C2
\* C2: once the close event of connection C has been processed, C is a
\* member of no room and is not in clients, in that state and in every later
\* state.
C2_CleanupComplete ==
  \A c \in Closed : c \notin clients /\ \A r \in DOMAIN rooms : c \notin Members(r)

\* A connection that had joined a room is closed, and a later join of
\* another connection to that room has been processed.
C2_Witness ==
  \E c \in Closed :
    /\ JoinEvent(last)
    /\ last.data.room \in clientRooms[c]
    /\ last.client \in Members(last.data.room)

\* -------------------------------------------------------------------- C3
\* C3: every group-message frame for room R written by a handler goes to a
\* connection that is a member of R when the handler runs, and whose own
\* membership set contains R.
C3_NoCrossRoomLeak ==
  [][\A i \in DOMAIN sent' :
       sent'[i].frame.type = "group-message" =>
         /\ sent'[i].to \in Members(sent'[i].frame.room)
         /\ sent'[i].frame.room \in clientRooms[sent'[i].to]
         /\ sent'[i].frame.room = last'.data.room]_vars

\* A broadcast to a room reached a member while an open connection that
\* joined only another room got no frame.
C3_Witness ==
  /\ BroadcastEvent(last)
  /\ sent # <<>>
  /\ \E z \in clients :
       /\ clientRooms[z] # {}
       /\ last.data.room \notin clientRooms[z]
       /\ z \notin Recipients(sent)

\* -------------------------------------------------------------------- C4
\* C4: in a broadcast to room R in which some sends throw, a send is still
\* attempted to every member of R, the sender gets no frame other than the
\* group-message, no exception leaves broadcastToRoom or the handler, and a
\* POST /chat is answered {ok: true}.
C4_BroadcastIsolation ==
  (BroadcastEvent(last) /\ \E i \in DOMAIN sent : ~sent[i].ok) =>
    /\ Recipients(sent) = Members(last.data.room)
    /\ \A i \in DOMAIN sent : sent[i].frame.type = "group-message"
    /\ ~broadcastThrew
    /\ ~escaped
    /\ last.op = "chat" => res.status = 200

\* A send of a broadcast threw and a send to a later member was attempted.
C4_Witness ==
  /\ BroadcastEvent(last)
  /\ \E i, j \in DOMAIN sent : i < j /\ ~sent[i].ok /\ sent[j].ok

\* -------------------------------------------------------------------- C5
\* C5: when a valid send frame {room R, user, text} is processed, every
\* member of R at that moment is sent exactly one group-message frame for R
\* with that user and text, and nothing else is sent.
C5_FanOutAll ==
  [][ValidSendEvent(last') =>
       /\ Len(sent') = Cardinality(Members(last'.data.room))
       /\ \A m \in Members(last'.data.room) :
            Cardinality({i \in DOMAIN sent' :
                           /\ sent'[i].to = m
                           /\ sent'[i].frame.type = "group-message"
                           /\ sent'[i].frame.room = last'.data.room
                           /\ sent'[i].frame.data.user = last'.data.user
                           /\ sent'[i].frame.data.text = last'.data.text}) = 1]_vars

\* A send frame from a member was fanned out to the sender and to another
\* member.
C5_Witness ==
  /\ ValidSendEvent(last)
  /\ last.client \in Recipients(sent)
  /\ Cardinality(Recipients(sent)) >= 2

\* -------------------------------------------------------------------- C6
\* C6: a join of connection C to room R while C is already a member of R
\* leaves clients, the rooms map, every member set and every membership set
\* as they were, with C once in members(R).
C6_IdempotentJoin ==
  [][(JoinEvent(last') /\ last'.client \in Members(last'.data.room)) =>
       /\ registry' = registry
       /\ Cardinality({i \in DOMAIN rooms'[last'.data.room] :
                         rooms'[last'.data.room][i] = last'.client}) = 1]_vars

\* A join was processed for a connection that is not the newest member of
\* the room: it was a member before this join.
C6_Witness ==
  /\ JoinEvent(last)
  /\ last.data.room \in DOMAIN rooms
  /\ Len(rooms[last.data.room]) >= 2
  /\ rooms[last.data.room][1] = last.client

\* -------------------------------------------------------------------- C7
\* C7: a join frame for a room R (a non-empty string) from connection X
\* writes exactly one frame, the joined frame naming R, to X and no frame
\* to any other connection.
C7_AckToRequesterOnly ==
  (JoinEvent(last) /\ NonEmptyString(last.data.room)) =>
    /\ Len(sent) = 1
    /\ sent[1].to = last.client
    /\ sent[1].frame = JoinedFrame(last.data.room)

\* A join was acknowledged in a room that has another member.
C7_Witness ==
  /\ JoinEvent(last)
  /\ NonEmptyString(last.data.room)
  /\ Len(sent) = 1
  /\ Members(last.data.room) \ {last.client} # {}

\* -------------------------------------------------------------------- C8
\* C8: no handler that runs after the close event of connection X writes a
\* frame to X, and a broadcast to a room X had joined ends without an
\* exception.
C8_NoDeliveryAfterClose ==
  /\ \A i \in DOMAIN sent : sent[i].to \notin Closed
  /\ (BroadcastEvent(last) /\ \E x \in Closed : last.data.room \in clientRooms[x]) =>
       ~broadcastThrew /\ ~escaped

\* A broadcast to a room a closed connection had joined reached a member.
C8_Witness ==
  /\ BroadcastEvent(last)
  /\ \E x \in Closed : last.data.room \in clientRooms[x]
  /\ sent # <<>>

\* -------------------------------------------------------------------- C9
\* C9: a send frame whose room, text or user is missing or empty writes no
\* frame to any connection, leaves the registry unchanged and leaves every
\* connection's open/closed state as it was; no exception leaves the handler.
C9_InvalidSendDropped ==
  [][(SendEvent(last') /\ (\/ MissingOrEmpty(last'.data.room)
                           \/ MissingOrEmpty(last'.data.text)
                           \/ MissingOrEmpty(last'.data.user))) =>
       /\ sent' = <<>>
       /\ registry' = registry
       /\ socketState' = socketState
       /\ ~escaped']_vars

\* A send frame without a user was processed for a room that has members.
C9_Witness ==
  /\ SendEvent(last)
  /\ MissingOrEmpty(last.data.user)
  /\ NonEmptyString(last.data.text)
  /\ Members(last.data.room) # {}
  /\ sent = <<>>
  /\ socketState[last.client] = "open"

\* ------------------------------------------------------------------- C10
\* C10: a join frame whose room is not a non-empty string (missing, empty
\* or not a string) leaves the rooms map and every membership set unchanged
\* and writes no joined frame.
C10_InvalidJoinIgnored ==
  [][(JoinEvent(last') /\ ~NonEmptyString(last'.data.room)) =>
       /\ rooms' = rooms
       /\ clientRooms' = clientRooms
       /\ \A i \in DOMAIN sent' : sent'[i].frame.type # "joined"]_vars

\* ------------------------------------------------------------------- C11
\* The event e is a frame that does not parse to an object or whose type is
\* neither join nor send.
DroppedFrameEvent(e) ==
  /\ e.op = "message"
  /\ \/ e.data.json # "object"
     \/ e.data.type \notin {Str("join"), Str("send")}

\* C11: a frame that does not parse, or whose type is neither join nor send,
\* changes no registry state, writes no frame, lets no exception out of the
\* handler and leaves every socket as it was: the connection stays open, so
\* its later frames are handled.
C11_MalformedDropped ==
  [][DroppedFrameEvent(last') =>
       /\ registry' = registry
       /\ sent' = <<>>
       /\ ~escaped'
       /\ socketState' = socketState
       /\ socketState'[last'.client] = "open"
       /\ last'.client \in clients']_vars

\* A frame of an unknown type, or one that does not parse, was dropped for a
\* connection that is a member of the room.
C11_Witness ==
  /\ DroppedFrameEvent(last)
  /\ last.client \in Members(Str("lobby"))
  /\ socketState[last.client] = "open"
  /\ sent = <<>>

\* ------------------------------------------------------------------- C12
\* C12: when a connection's socket raises an error event, the connection is
\* removed from every room and from clients, and the error is not
\* propagated.
C12_ErrorTriggersCleanup ==
  [][last'.op = "error" =>
       /\ last'.client \notin clients'
       /\ \A r \in DOMAIN rooms' : \A i \in DOMAIN rooms'[r] :
            rooms'[r][i] # last'.client
       /\ ~escaped']_vars

\* ------------------------------------------------------------------- C13
\* C13: running the close listener of a connection a second time throws
\* nothing and leaves the rooms map, every member set, every membership set
\* and clients as they were after the first run.
C13_CloseIdempotent ==
  [][last'.op = "reclose" =>
       /\ rooms' = rooms
       /\ clients' = clients
       /\ clientRooms' = clientRooms
       /\ ~escaped']_vars

\* The close listener ran again for a connection that had joined a room
\* which still has another member.
C13_Witness ==
  /\ last.op = "reclose"
  /\ \E r \in clientRooms[last.client] : Members(r) # {}

\* ------------------------------------------------------------------- C14
\* The send frame with the fields of the POST /chat body of event e.
SendFrameOf(e) == ObjectJson(Str("send"), e.data.room, e.data.user, e.data.text)

\* C14 (as stated): in mock mode POST /chat broadcasts to the members of the
\* room exactly when the send frame with the same fields would, and delivers
\* nothing exactly when that frame would be dropped.
C14_HttpEquivalentToSend ==
  [][(last'.op = "chat" /\ ~azureService) =>
       /\ (path' = "broadcastToRoom") <=> IsSend(SendFrameOf(last'))
       /\ Recipients(sent') = IF IsSend(SendFrameOf(last'))
                              THEN Members(last'.data.room) ELSE {}]_vars

\* C14 (amended): in mock mode POST /chat broadcasts to the members of the
\* room exactly when room and text are non-empty, whatever the user is; it
\* does what the send frame with the same fields does whenever the user is
\* non-empty, and still broadcasts when the user is missing or empty, where
\* the send frame is dropped.
C14_HttpBroadcast ==
  [][(last'.op = "chat" /\ ~azureService) =>
       LET valid == NonEmptyString(last'.data.room) /\ NonEmptyString(last'.data.text)
       IN /\ (path' = "broadcastToRoom") <=> valid
          /\ Recipients(sent') = IF valid THEN Members(last'.data.room) ELSE {}
          /\ \A i \in DOMAIN sent' :
               /\ sent'[i].frame.type = "group-message"
               /\ sent'[i].frame.room = last'.data.room
               /\ sent'[i].frame.data.user = last'.data.user
               /\ sent'[i].frame.data.text = last'.data.text
          /\ NonEmptyString(last'.data.user) =>
               (IsSend(SendFrameOf(last')) <=> (path' = "broadcastToRoom"))
          /\ (valid /\ MissingOrEmpty(last'.data.user)) =>
               (~IsSend(SendFrameOf(last')) /\ path' = "broadcastToRoom")]_vars

\* A POST /chat without a user was broadcast to the members of its room.
C14_Witness ==
  /\ last.op = "chat"
  /\ ~azureService
  /\ MissingOrEmpty(last.data.user)
  /\ path = "broadcastToRoom"
  /\ sent # <<>>

\* ------------------------------------------------------------------- C15
\* C15 (as stated): a POST /chat with a missing or empty room or text gets
\* 400 and delivers nothing; every other request gets {ok: true} after the
\* broadcast has been issued.
C15_ChatOutcome ==
  last.op = "chat" =>
    IF MissingOrEmpty(last.data.room) \/ MissingOrEmpty(last.data.text)
    THEN res.status = 400 /\ sent = <<>> /\ azureSent = <<>> /\ path = "none"
    ELSE res.status = 200 /\ path # "none"

\* C15 (amended): as stated, except that in managed-service mode a request
\* whose sendToAll is rejected gets a 500 error response; in mock mode every
\* request with a room and a text gets {ok: true}, also when the room has no
\* members or does not exist.
C15_ChatOutcomeUnlessRejected ==
  last.op = "chat" =>
    IF MissingOrEmpty(last.data.room) \/ MissingOrEmpty(last.data.text)
    THEN res.status = 400 /\ sent = <<>> /\ azureSent = <<>> /\ path = "none"
    ELSE /\ path # "none"
         /\ ~azureService => res.status = 200
         /\ azureService =>
              /\ Len(azureSent) = 1
              /\ res.status = IF azureSent[1].ok THEN 200 ELSE 500

\* A POST /chat to a room without members was answered {ok: true}.
C15_Witness ==
  /\ last.op = "chat"
  /\ path = "broadcastToRoom"
  /\ Members(last.data.room) = {}
  /\ res.status = 200

\* ------------------------------------------------------------------- C16
\* C16: a broadcast (send frame or POST /chat) to a room that has no entry
\* in the rooms map writes no frame, throws nothing, creates no entry for
\* the room, and a POST /chat is answered {ok: true}.
C16_UnknownRoomEmpty ==
  [][(BroadcastEvent(last') /\ last'.data.room \notin DOMAIN rooms) =>
       /\ sent' = <<>>
       /\ ~broadcastThrew'
       /\ ~escaped'
       /\ rooms' = rooms
       /\ last'.op = "chat" => res'.status = 200]_vars

\* A broadcast to a room nobody joined was processed while another room has
\* a member.
C16_Witness ==
  /\ BroadcastEvent(last)
  /\ last.data.room \notin DOMAIN rooms
  /\ \E r \in DOMAIN rooms : Members(r) # {}
  /\ sent = <<>>

C19_NoHandlerFatal ==
  [][last'.op \in {"message", "close", "chat"} =>
       /\ ~escaped'
       /\ \A d \in ClientIds \ {last'.client} :
            /\ socketState'[d] = socketState[d]
            /\ d \in clients => d \in clients'
            /\ clientRooms'[d] = clientRooms[d]]_vars

\* The acknowledgment of a join threw while another connection is open.
C19_Witness ==
  /\ JoinEvent(last)
  /\ sent # <<>>
  /\ ~sent[1].ok
  /\ clients \ {last.client} # {}

\* ------------------------------------------------------------------- C20
\* The event e is a frame of type leave.
LeaveEvent(e) == e.op = "message" /\ e.data.json = "object" /\ e.data.type = Str("leave")

\* C20: a leave frame for room R from an open connection that is a member
\* of R removes the connection from members(R) and R from the connection's
\* membership set.
C20_Leave ==
  [][(LeaveEvent(last') /\ last'.client \in Members(last'.data.room)) =>
       /\ \A i \in DOMAIN rooms'[last'.data.room] :
            rooms'[last'.data.room][i] # last'.client
       /\ last'.data.room \notin clientRooms'[last'.client]]_vars

\* ------------------------------------------------------------------- C21
\* C21: from the first to the last send attempt of one broadcastToRoom call
\* no join, accept or close takes effect, and when the call returns the
\* connections it attempted are exactly the members the room had when the
\* call started, each attempted once.
C21_SnapshotBroadcast ==
  [][loop.on =>
       /\ registry' = registry
       /\ socketState' = socketState
       /\ ~loop'.on =>
            /\ Recipients(loop'.attempted) = loop.start
            /\ Len(loop'.attempted) = Cardinality(loop.start)
            /\ loop.start = Members(loop.room)]_vars

\* A broadcast to a room with two members has returned.
C21_Witness ==
  /\ ~loop.on
  /\ Len(loop.attempted) = 2
  /\ Recipients(loop.attempted) = loop.start

\* ------------------------------------------------------------------- C22
\* Client s is still connecting or open, was never stopped or closed by a
\* cleanup, and the effect run that created it is disposed.
Zombie(s) ==
  /\ disposed[socks[s].run]
  /\ ~socks[s].stopped
  /\ socks[s].state \in {"connecting", "open"}

\* C22: once the cleanup of an effect run has run, no client created by
\* that run, before or after the cleanup, is connecting or open without
\* having been closed or stopped.
C22_NoZombie == \A s \in DOMAIN socks : ~Zombie(s)

\* ------------------------------------------------------------------- C23
\* An established connection of effect run k, which is not disposed, was
\* lost: its socket had opened and has raised error or close.
LostEstablished(k) ==
  /\ ~disposed[k]
  /\ \E s \in DOMAIN socks :
       /\ socks[s].run = k
       /\ socks[s].wasOpen
       /\ socks[s].state \in {"errored", "closed"}

\* C23: whenever an established connection of a mounted hook is lost, the
\* hook eventually starts a new connect attempt (or is unmounted or given
\* another room first).
C23_Reconnect ==
  \A k \in Runs : LostEstablished(k) ~> (pc[k] = "negotiate" \/ disposed[k])

\* ------------------------------------------------------------------- C24
\* The user a client connecting with the negotiated URL is identified as:
\* in mock mode what the connection handler reads from the URL, with the
\* managed service the user the token was requested for.
NegotiatedIdentity ==
  IF negotiated.mode = "mock" THEN searchParamsGet(negotiated.user) ELSE negotiated.user

IsAnonId(id) == \E u \in Uuids : id = AnonId(u)

\* C24 (as stated): GET /negotiate returns mode "mock" and the mock
\* server's URL iff no managed service is configured and mode "azure"
\* otherwise; the identity in the result is the x-user-id header when it is
\* present and a generated anonymous identifier when it is absent; a
\* rejected token request is answered 500 with no result.
C24_NegotiateResult ==
  last.op = "negotiate" =>
    /\ (res.status = 500) <=> (negotiated.token = "rejected")
    /\ res.status = 500 => negotiated.mode = "none"
    /\ res.status # 500 =>
         /\ res.status = 200
         /\ negotiated.mode = IF azureService THEN "azure" ELSE "mock"
         /\ (negotiated.host = "ws://localhost:WS_PORT") <=> ~azureService
         /\ negotiated.header.present => NegotiatedIdentity = negotiated.header.value
         /\ ~negotiated.header.present => IsAnonId(NegotiatedIdentity)

\* C24 (amended): as stated, except that the identity is the x-user-id
\* header only when the header is present and not empty; with an absent or
\* empty header it is a generated anonymous identifier.
C24_NegotiateResultNonEmpty ==
  last.op = "negotiate" =>
    /\ (res.status = 500) <=> (negotiated.token = "rejected")
    /\ res.status = 500 => negotiated.mode = "none"
    /\ res.status # 500 =>
         /\ res.status = 200
         /\ negotiated.mode = IF azureService THEN "azure" ELSE "mock"
         /\ (negotiated.host = "ws://localhost:WS_PORT") <=> ~azureService
         /\ IF negotiated.header.present /\ negotiated.header.value # <<>>
            THEN NegotiatedIdentity = negotiated.header.value
            ELSE IsAnonId(NegotiatedIdentity)

\* A mock-mode negotiate for a header with characters that need escaping.
C24_Witness ==
  /\ last.op = "negotiate"
  /\ negotiated.mode = "mock"
  /\ negotiated.header.present
  /\ negotiated.header.value = <<"+", "%">>
  /\ negotiated.user # negotiated.header.value

\* ------------------------------------------------------------------- C25
\* Effect run k has a client whose socket opened.
Established(k) == \E s \in DOMAIN socks : socks[s].run = k /\ socks[s].wasOpen

\* C25: after a connect attempt ended in the catch clause, connected is
\* false and a retry is scheduled, and with finitely many failing attempts
\* a connection of the effect run is eventually established (or the run is
\* disposed first).
C25_RetryConnects ==
  /\ [](hlast.op = "catch" => (~connected /\ pc[hlast.run] = "timer"))
  /\ \A k \in Runs : (pc[k] = "timer") ~> (Established(k) \/ disposed[k])

\* ------------------------------------------------------------------- C26
\* C26: a step of an effect run that calls setConnected or setMessages runs
\* with `disposed` false.
C26_NoUpdateAfterDispose ==
  (hlast.setConnected \/ hlast.setMessages) => ~hlast.disposed

\* ------------------------------------------------------------------- C27
\* C27: in mock mode a received frame is appended to messages, at the end,
\* when it parses to an object of type group-message whose room is the
\* effect's room and whose message has data; every other frame leaves
\* messages unchanged.
C27_MockRoomFilter ==
  [][(hlast'.op = "message" /\ socks[hlast'.sock].kind = "mock") =>
       LET f == hlast'.frame
           room == effectRoom[hlast'.run]
       IN IF /\ f.json = "object"
             /\ f.type = "group-message"
             /\ f.room = room
             /\ f.message = "object"
             /\ f.data.k = "object"
          THEN messages' = messages \o <<f.data>>
          ELSE messages' = messages]_vars

\* Two different messages were accepted, and a frame for another room was
\* then dropped.
C27_Witness ==
  /\ hlast.op = "message"
  /\ socks[hlast.sock].kind = "mock"
  /\ hlast.frame.type = "group-message"
  /\ hlast.frame.room # effectRoom[hlast.run]
  /\ hlast.frame.room # Undefined
  /\ ~hlast.setMessages
  /\ Len(messages) = 2
  /\ messages[1] # messages[2]

\* ------------------------------------------------------------------- C28
\* C28: no step removes a key from the rooms map; after the close of the
\* last member of a room the room is still a key, with an empty set.
C28_RoomsRetained ==
  [][/\ DOMAIN rooms \subseteq DOMAIN rooms'
     /\ last'.op = "close" =>
          \A r \in clientRooms[last'.client] :
            r \in DOMAIN rooms' /\ last'.client \notin {rooms'[r][i] : i \in DOMAIN rooms'[r]}]_vars

\* The last member of a room has closed and the room is still in the map,
\* empty.
C28_Witness ==
  /\ last.op = "close"
  /\ \E r \in clientRooms[last.client] : r \in DOMAIN rooms /\ rooms[r] = <<>>

\* ------------------------------------------------------------------- C29
\* C29: a send frame or a POST /chat, valid or not, with or without failing
\* recipient sends, leaves clients, the rooms map with its member sets and
\* every client.rooms unchanged.
C29_BroadcastKeepsRegistry ==
  [][(SendEvent(last') \/ last'.op = "chat") => registry' = registry]_vars

\* A broadcast had a recipient whose send threw, and the recipient is still
\* a member of the room and of clients.
C29_Witness ==
  /\ BroadcastEvent(last)
  /\ \E i \in DOMAIN sent :
       /\ ~sent[i].ok
       /\ sent[i].to \in Members(last.data.room)
       /\ sent[i].to \in clients

\* ------------------------------------------------------------------- C30
\* C30: a join frame of connection C for room R leaves clients, the set of
\* every room other than R, the position of every other member of R, the
\* client.rooms of every other connection and C's other memberships
\* unchanged, and adds no key other than R to the rooms map.
C30_JoinLocal ==
  [][JoinEvent(last') =>
       LET c == last'.client
           R == last'.data.room
       IN /\ clients' = clients
          /\ DOMAIN rooms' \subseteq DOMAIN rooms \cup {R}
          /\ \A r \in DOMAIN rooms \ {R} : rooms'[r] = rooms[r]
          /\ R \in DOMAIN rooms /\ R \in DOMAIN rooms' =>
               SelectSeq(rooms'[R], LAMBDA e : e # c) = SelectSeq(rooms[R], LAMBDA e : e # c)
          /\ \A d \in ClientIds \ {c} : clientRooms'[d] = clientRooms[d]
          /\ clientRooms'[c] \ {R} = clientRooms[c] \ {R}]_vars

\* A connection that is a member of another room joined a room, while
\* another connection is a member of some room.
C30_Witness ==
  /\ JoinEvent(last)
  /\ last.data.room \in clientRooms[last.client]
  /\ clientRooms[last.client] \ {last.data.room} # {}
  /\ \E d \in clients \ {last.client} : clientRooms[d] # {}

\* ------------------------------------------------------------------- C31
\* C31: the close of connection C takes C, and nothing else, out of every
\* room's set and out of clients; the rooms map keeps its keys, the other
\* members keep their order, and no client.rooms changes.
C31_CloseLocal ==
  [][last'.op = "close" =>
       LET c == last'.client
       IN /\ DOMAIN rooms' = DOMAIN rooms
          /\ \A r \in DOMAIN rooms : rooms'[r] = SelectSeq(rooms[r], LAMBDA e : e # c)
          /\ clients' = clients \ {c}
          /\ \A d \in ClientIds \ {c} :
               /\ clientRooms'[d] = clientRooms[d]
               /\ socketState'[d] = socketState[d]]_vars

\* A connection closed that shared a room with another connection, which is
\* still a member of the room.
C31_Witness ==
  /\ last.op = "close"
  /\ \E r \in clientRooms[last.client] :
       \E d \in clients : d \in Members(r) /\ r \in clientRooms[d]

\* ------------------------------------------------------------------- C32
\* C32: every chat frame of a broadcast (send frame or POST /chat, to room
\* members or to the managed service) carries a ts read from the server's
\* clock, never the ts the client put into its input, and all recipients of
\* one broadcast get the same frame: the room, user and text of the input with
\* that one ts.
C32_ServerTimestamp ==
  [][SendEvent(last') \/ last'.op = "chat" =>
       /\ \A i \in DOMAIN sent' :
            /\ sent'[i].frame.data.ts \in Times
            /\ sent'[i].frame.data.ts # last'.data.ts
            /\ sent'[i].frame = sent'[1].frame
            /\ sent'[i].frame.room = last'.data.room
            /\ sent'[i].frame.data.user = last'.data.user
            /\ sent'[i].frame.data.text = last'.data.text
       /\ \A i \in DOMAIN azureSent' :
            /\ azureSent'[i].data.ts \in Times
            /\ azureSent'[i].data.ts # last'.data.ts
            /\ azureSent'[i].data.user = last'.data.user
            /\ azureSent'[i].data.text = last'.data.text]_vars

\* A send frame that carried a ts of its own was broadcast to two members.
C32_Witness ==
  /\ SendEvent(last)
  /\ last.data.ts = ClientTs
  /\ Len(sent) = 2
  /\ sent[1].to # sent[2].to

\* ------------------------------------------------------------------- C33
\* C33: when the join handler has written a joined frame for room R to
\* connection X, X is in the set of R and R in X's client.rooms, also when
\* the write threw.
C33_AckImpliesMember ==
  [][JoinEvent(last') =>
       \A i \in DOMAIN sent' :
         sent'[i].frame.type = "joined" =>
           /\ sent'[i].frame.room \in DOMAIN rooms'
           /\ \E j \in DOMAIN rooms'[sent'[i].frame.room] :
                rooms'[sent'[i].frame.room][j] = sent'[i].to
           /\ sent'[i].frame.room \in clientRooms'[sent'[i].to]
           /\ sent'[i].to \in clients']_vars

\* The acknowledgment of a first join threw and the connection is a member
\* of the room.
C33_Witness ==
  /\ JoinEvent(last)
  /\ sent # <<>>
  /\ ~sent[1].ok
  /\ last.client \in Members(last.data.room)
  /\ last.data.room \in clientRooms[last.client]

\* ------------------------------------------------------------------- C34
\* C34: after every step each member of each room's set is in clients, and
\* the connection handler leaves the new connection in clients, with an
\* empty client.rooms and in no room's set.
C34_MembersTracked ==
  [][/\ \A r \in DOMAIN rooms' :
          \A i \in DOMAIN rooms'[r] : rooms'[r][i] \in clients'
     /\ last'.op = "connection" =>
          /\ last'.client \in clients'
          /\ clientRooms'[last'.client] = {}
          /\ \A r \in DOMAIN rooms' :
               \A i \in DOMAIN rooms'[r] : rooms'[r][i] # last'.client]_vars

\* A connection was accepted while another one was a member of a room.
C34_Witness ==
  /\ last.op = "connection"
  /\ last.client \in clients
  /\ \E r \in RoomKeys : \E d \in clients : d # last.client /\ d \in Members(r)

\* ------------------------------------------------------------------- C35
\* Two connections with the same user identifier.
SameUser(c, d) == c # d /\ clientUserId[c] = clientUserId[d]

\* C35: the connection handler adds the new connection to clients and
\* removes none, whatever user identifiers the tracked ones have; a broadcast
\* to a room sends one frame to each of two members with the same user
\* identifier; and the close of one of the two leaves the other in clients,
\* in its rooms' sets and with its client.rooms.
C35_SameUserIndependent ==
  [][/\ last'.op = "connection" =>
          /\ clients' = clients \cup {last'.client}
          /\ last'.client \notin clients
     /\ BroadcastEvent(last') =>
          \A c, d \in Members(last'.data.room) :
            SameUser(c, d) =>
              /\ Cardinality({i \in DOMAIN sent' : sent'[i].to = c}) = 1
              /\ Cardinality({i \in DOMAIN sent' : sent'[i].to = d}) = 1
     /\ last'.op = "close" =>
          \A d \in clients :
            SameUser(last'.client, d) =>
              /\ d \in clients'
              /\ clientRooms'[d] = clientRooms[d]
              /\ \A r \in DOMAIN rooms : d \in Members(r) =>
                   \E i \in DOMAIN rooms'[r] : rooms'[r][i] = d]_vars

\* Two open connections of the same user are members of the same room and a
\* broadcast to it reached both.
C35_Witness ==
  /\ BroadcastEvent(last)
  /\ \E c, d \in clients :
       /\ SameUser(c, d)
       /\ clientUserId[c] = <<"j">>
       /\ {c, d} \subseteq Members(last.data.room)
       /\ {c, d} \subseteq Recipients(sent)

\* ------------------------------------------------------------------- C36
\* C36: a valid send frame for room R from a connection that is not a member
\* of R is sent to every member of R, and the sender of a valid send frame is
\* among the recipients exactly when it is a member of R.
C36_SendWithoutMembership ==
  [][ValidSendEvent(last') =>
       /\ last'.client \notin Members(last'.data.room) =>
            Recipients(sent') = Members(last'.data.room)
       /\ last'.client \in Recipients(sent') <=>
            last'.client \in Members(last'.data.room)]_vars

\* A connection that is in no room sent to a room with a member, which
\* received the frame.
C36_Witness ==
  /\ ValidSendEvent(last)
  /\ clientRooms[last.client] = {}
  /\ last.client \notin Members(last.data.room)
  /\ Recipients(sent) = Members(last.data.room)
  /\ sent # <<>>

\* ------------------------------------------------------------------- C37
\* The clients of the current effect run that are open.
OpenOfCurrentRun == {s \in DOMAIN socks : socks[s].run = run /\ socks[s].state = "open"}

\* C37: while the component is mounted, `connected` is true only if a client
\* of the current effect run is open.
C37_ConnectedAccurate ==
  mounted /\ connected => OpenOfCurrentRun # {}

\* ------------------------------------------------------------------- C38
\* The clients the hook created that are open.
OpenSocks == {s \in DOMAIN socks : socks[s].state = "open"}

\* C38: clientRef.current is null or a client of the latest effect run, and
\* at most one client the hook created is open.
C38_OneLiveClient ==
  /\ clientRef # 0 => socks[clientRef].run = run
  /\ Cardinality(OpenSocks) <= 1

\* ------------------------------------------------------------------- C39
\* C39: once the cleanup of an effect run has run, no step starts a connect
\* attempt of that run (a fetch of /negotiate) and no step creates a client
\* for it.
C39_NoConnectAfterDispose ==
  [][\A k \in Runs :
       disposed[k] =>
         /\ pc'[k] = "negotiate" => pc[k] = "negotiate"
         /\ \A s \in DOMAIN socks' : socks'[s].run = k => s \in DOMAIN socks]_vars
====
